---- MODULE Spec2Model ----
(***************************************************************************)
(* Model of 01_data_preparation/src/data_loader.py: the imputation of      *)
(* missing values (imputar_datos_consumo) and the construction of the      *)
(* 'Datetime' column (crear_indice_fecha).                                 *)
(*                                                                         *)
(* A DataFrame is an object on a heap (Python passes references), so that  *)
(* "the input is not mutated" and "a new table is returned" are facts the  *)
(* model can get wrong.  A float cell is an exact rational num/den or NaN; *)
(* a datetime cell is a timestamp (year, month, day).                      *)
(***************************************************************************)
EXTENDS Integers, Sequences, FiniteSets

(* ------------------------------ bounds -------------------------------- *)
\* longest consumption table (rows)
MaxLen == 5
\* longest Year/Month table (rows)
MaxDateRows == 2

(* ------------------------------- cells -------------------------------- *)
NaN == [kind |-> "nan", num |-> 0, den |-> 1]

Abs(n) == IF n < 0 THEN -n ELSE n

RECURSIVE GCD(_, _)
GCD(a, b) == IF b = 0 THEN a ELSE GCD(b, a % b)

\* the float n/d (d /= 0), in lowest terms with a positive denominator
Rat(n, d) ==
    LET g == GCD(Abs(n), Abs(d))
        s == IF d < 0 THEN -1 ELSE 1
    IN  [kind |-> "num", num |-> s * (n \div g), den |-> s * (d \div g)]

Num(n) == Rat(n, 1)

RatAdd(a, b) == Rat(a.num * b.den + b.num * a.den, a.den * b.den)
RatSub(a, b) == Rat(a.num * b.den - b.num * a.den, a.den * b.den)
RatMul(a, b) == Rat(a.num * b.num, a.den * b.den)
RatDiv(a, b) == Rat(a.num * b.den, a.den * b.num)

Timestamp(y, m, d) == [kind |-> "ts", year |-> y, month |-> m, day |-> d]

\* pandas.isna / notna on one cell
IsNa(v) == v.kind = "nan"
NotNa(v) == ~IsNa(v)

SetMin(S) == CHOOSE m \in S : \A k \in S : m <= k
SetMax(S) == CHOOSE m \in S : \A k \in S : m >= k

(* ------------------------------ Series -------------------------------- *)
\* Series.first_valid_index() returns None when no value is valid
NoneLabel == -1

\* positions of the valid (non-missing) values of a column
ValidPos(s) == {p \in DOMAIN s : NotNa(s[p])}

\* Series.first_valid_index(): the LABEL of the first non-missing value
FirstValidIndex(idx, s) ==
    IF ValidPos(s) = {} THEN NoneLabel ELSE idx[SetMin(ValidPos(s))]

\* .loc[:label]: label slicing on a sorted index, both ends inclusive
LocSliceTo(idx, label) == {p \in DOMAIN idx : idx[p] <= label}
\* .loc[label:]
LocSliceFrom(idx, label) == {p \in DOMAIN idx : idx[p] >= label}

\* the values of the rows P (a run of consecutive positions) as a Series
Take(s, P) == IF P = {} THEN << >> ELSE SubSeq(s, SetMin(P), SetMax(P))

\* .loc[P, columna] = nuevo: assignment back into the rows P
Put(s, P, nuevo) ==
    [p \in DOMAIN s |-> IF p \in P THEN nuevo[p - SetMin(P) + 1] ELSE s[p]]

\* Series.fillna(v): only the missing cells change
FillnaIdentity(s, v) == s
FillnaAll(s, v) == [p \in DOMAIN s |-> v]
Fillna(s, v) == [p \in DOMAIN s |-> IF IsNa(s[p]) THEN v ELSE s[p]]

\* x coordinates used by interpolate: method='linear' ignores the index
\* and treats the values as equally spaced (np.arange(len(index)))
InterpIndsByIndex(idx) == idx
InterpInds(idx) == [p \in DOMAIN idx |-> p]

\* np.interp(x, xp, fp) at position p: xp/fp are the valid positions of s;
\* below the first and above the last known point the edge value is held
NpInterp(inds, s, p) ==
    LET V  == ValidPos(s)
        x  == inds[p]
    IN  IF x <= inds[SetMin(V)] THEN s[SetMin(V)]
        ELSE IF x >= inds[SetMax(V)] THEN s[SetMax(V)]
        ELSE LET lo == SetMax({q \in V : inds[q] <= x})
                 hi == SetMin({q \in V : inds[q] > x})
                 slope == RatDiv(RatSub(s[hi], s[lo]),
                                 Num(inds[hi] - inds[lo]))
             IN  RatAdd(RatMul(slope, Num(x - inds[lo])), s[lo])

\* the missing positions interpolate leaves missing: with
\* limit_direction='both', limit=None and limit_area=None there are none
PreserveNansBackward(s) ==
    {p \in DOMAIN s : ValidPos(s) /= {} /\ p > SetMax(ValidPos(s))}
PreserveNansLimit1(s) ==
    {p \in DOMAIN s : IsNa(s[p]) /\ p > 1 /\ IsNa(s[p - 1])}
PreserveNans(s) == {}

\* Series.interpolate(method='linear', limit_direction='both')
Interpolate(idx, s) ==
    IF ValidPos(s) = {} THEN s
    ELSE LET inds == InterpInds(idx)
         IN  [p \in DOMAIN s |->
                IF IsNa(s[p]) /\ p \notin PreserveNans(s)
                THEN NpInterp(inds, s, p) ELSE s[p]]

(* ----------------------- imputar_datos_consumo ------------------------ *)
\* a) zero everything before the first valid observation
ZerosBeforeFirstValid(idx, s, primer_indice_valido) ==
    LET P == LocSliceTo(idx, primer_indice_valido)
    IN  Put(s, P, Fillna(Take(s, P), Num(0)))

\* b) interpolate from the first valid observation on
InterpolateFromFirstValid(idx, s, primer_indice_valido) ==
    LET P == LocSliceFrom(idx, primer_indice_valido)
    IN  Put(s, P, Interpolate(Take(idx, P), Take(s, P)))

\* a column that is entirely NaN is filled with 0
FillAllNaNColumnSkip(s) == s
FillAllNaNColumn(s) == Fillna(s, Num(0))

\* the body of the loop, for one column
ImputarColumna(idx, s) ==
    LET primer_indice_valido == FirstValidIndex(idx, s)
    IN  IF primer_indice_valido /= NoneLabel
        THEN InterpolateFromFirstValid(idx,
                 ZerosBeforeFirstValid(idx, s, primer_indice_valido),
                 primer_indice_valido)
        ELSE FillAllNaNColumn(s)

\* the columns the loop visits
ColumnasTodas(t, columnas_consumo) == t.cols
ColumnasIteradas(t, columnas_consumo) == columnas_consumo

\* for columna in columnas_consumo: ... (in place, on df_imputado)
RECURSIVE ImputarBucle(_, _)
ImputarBucle(t, cs) ==
    IF cs = << >> THEN t
    ELSE ImputarBucle(
           [t EXCEPT !.data[Head(cs)] = ImputarColumna(t.index, @)],
           Tail(cs))

\* df.copy(): a new object holding the same values
DfCopyAlias(h, r) == [heap |-> h, ref |-> r]
DfCopy(h, r) == [heap |-> Append(h, h[r]), ref |-> Len(h) + 1]

\* imputar_datos_consumo(df, columnas_consumo): the heap after the call and
\* the reference returned
imputar_datos_consumo(h, df, columnas_consumo) ==
    LET c == DfCopy(h, df)
        df_imputado == c.ref
    IN  [heap |-> [c.heap EXCEPT ![df_imputado] =
                     ImputarBucle(@, ColumnasIteradas(@, columnas_consumo))],
         ref  |-> df_imputado]

(* ------------------------- crear_indice_fecha ------------------------- *)
\* a str is a sequence of characters
Digits == <<"0", "1", "2", "3", "4", "5", "6", "7", "8", "9">>

IsDigit(ch) == \E i \in DOMAIN Digits : Digits[i] = ch
DigitVal(ch) == (CHOOSE i \in DOMAIN Digits : Digits[i] = ch) - 1

\* str(n) of a non-negative int64 cell: Series.astype(str)
RECURSIVE IntToStr(_)
IntToStr(n) ==
    IF n < 10 THEN <<Digits[n + 1]>>
    ELSE Append(IntToStr(n \div 10), Digits[(n % 10) + 1])

AstypeStr(v) == IntToStr(v.num)

\* int(str) of a run of digits
RECURSIVE StrToInt(_)
StrToInt(str) ==
    IF str = << >> THEN 0
    ELSE 10 * StrToInt(SubSeq(str, 1, Len(str) - 1)) + DigitVal(str[Len(str)])

\* the error value of a parse that raises
ParseError == [kind |-> "error"]

\* pd.to_datetime(str, format='%Y-%m'): %Y is exactly four digits, %m is
\* one or two digits naming a month 1..12; the day defaults to 1
ToDatetime(str) ==
    IF /\ Len(str) \in {6, 7}
       /\ \A i \in 1..4 : IsDigit(str[i])
       /\ str[5] = "-"
       /\ \A i \in 6..Len(str) : IsDigit(str[i])
       /\ StrToInt(SubSeq(str, 6, Len(str))) \in 1..12
    THEN Timestamp(StrToInt(SubSeq(str, 1, 4)),
                   StrToInt(SubSeq(str, 6, Len(str))), 1)
    ELSE ParseError

\* df['Year'].astype(str) + '-' + df['Month'].astype(str), parsed per row
DatetimeColumn(t) ==
    [p \in DOMAIN t.index |->
        ToDatetime(AstypeStr(t.data["Year"][p]) \o <<"-">>
                   \o AstypeStr(t.data["Month"][p]))]

InCols(t, c) == \E i \in DOMAIN t.cols : t.cols[i] = c

\* df['Datetime'] = valores: a new column, appended in place
SetColumn(t, c, valores) ==
    [cols  |-> IF InCols(t, c) THEN t.cols ELSE Append(t.cols, c),
     index |-> t.index,
     data  |-> [k \in DOMAIN t.data \cup {c} |->
                  IF k = c THEN valores ELSE t.data[k]]]

\* df.drop(nombres, axis=1): a new table without the named columns
DropOnlyYear(t, nombres) ==
    [cols  |-> SelectSeq(t.cols, LAMBDA c : c /= "Year"),
     index |-> t.index,
     data  |-> [k \in DOMAIN t.data \ {"Year"} |-> t.data[k]]]
Drop(t, nombres) ==
    [cols  |-> SelectSeq(t.cols, LAMBDA c : c \notin nombres),
     index |-> t.index,
     data  |-> [k \in DOMAIN t.data \ nombres |-> t.data[k]]]

\* the two nested conditions of crear_indice_fecha
NecesitaDatetime(t) ==
    /\ ~InCols(t, "Datetime")
    /\ InCols(t, "Year") /\ InCols(t, "Month")

\* crear_indice_fecha(df): the heap after the call and the reference
\* returned. The column is assigned on the caller's object; drop returns a
\* new object, to which the local name df is rebound.
crear_indice_fecha(h, df) ==
    IF NecesitaDatetime(h[df])
    THEN LET h1 == [h EXCEPT ![df] = SetColumn(@, "Datetime", DatetimeColumn(@))]
         IN  [heap |-> Append(h1, Drop(h1[df], {"Year", "Month"})),
              ref  |-> Len(h1) + 1]
    ELSE [heap |-> h, ref |-> df]

(* ------------------------------ inputs -------------------------------- *)
\* a sorted, unique, unevenly spaced index: the day of the year on which
\* each month starts
MonthStartDay == <<0, 31, 59, 90, 120, 151, 181, 212, 243, 273, 304, 334>>

SolarCells == {NaN, Num(5), Num(10)}
WindCells  == {NaN, Num(3)}
YearCells  == {Num(1973), Num(2024)}
MonthCells == {Num(1), Num(12)}

\* a consumption table, indexed by date
ConsumoTable(n, s, w) ==
    [cols  |-> <<"Solar", "Wind">>,
     index |-> SubSeq(MonthStartDay, 1, n),
     data  |-> [k \in {"Solar", "Wind"} |-> IF k = "Solar" THEN s ELSE w]]

\* the column layouts of the raw tables, before the date column is built
DateLayouts ==
    { <<"Year", "Month", "Solar">>, <<"Year", "Month", "Datetime", "Solar">>,
      <<"Year", "Solar">>, <<"Month", "Solar">>, <<"Datetime", "Solar">> }

Range(f) == {f[i] : i \in DOMAIN f}

\* a raw table with the columns L, with the default 0-based row index
DateTable(L, n, y, m, s) ==
    [cols  |-> L,
     index |-> [p \in 1..n |-> p - 1],
     data  |-> [k \in Range(L) |->
                  CASE k = "Year"     -> y
                    [] k = "Month"    -> m
                    [] k = "Datetime" -> [p \in 1..n |-> Timestamp(2000, 6, 1)]
                    [] OTHER          -> s]]

\* the column lists a caller passes: consumption columns of the table
ColumnLists(t) ==
    { cs \in {<< >>, <<"Solar">>, <<"Wind">>, <<"Solar", "Wind">>} :
        \A i \in DOMAIN cs : InCols(t, cs[i]) }

(* ------------------------------- state -------------------------------- *)
\* heap: the DataFrame objects, by reference
\* df: the caller's table (a reference into heap)
\* df0: the value of the caller's table before the call
\* columnas_consumo: the column list passed to imputar_datos_consumo
\* ret, ret2: the references returned by the first and by the second call
\*            (0: none)
\* pc: "inicio", "imputado", "reimputado" or "fechado"
VARIABLES heap, df, df0, columnas_consumo, ret, ret2, pc

vars == <<heap, df, df0, columnas_consumo, ret, ret2, pc>>

Init ==
    /\ \/ \E n \in 1..MaxLen :
             \E s \in [1..n -> SolarCells], w \in [1..n -> WindCells] :
                df0 = ConsumoTable(n, s, w)
       \/ \E L \in DateLayouts, n \in 1..MaxDateRows :
             \E y \in [1..n -> YearCells], m \in [1..n -> MonthCells],
                s \in [1..n -> {NaN, Num(5)}] :
                df0 = DateTable(L, n, y, m, s)
    /\ heap = <<df0>>
    /\ df = 1
    /\ columnas_consumo = << >>
    /\ ret = 0
    /\ ret2 = 0
    /\ pc = "inicio"

\* df_imputado = imputar_datos_consumo(df, columnas_consumo)
Imputar ==
    /\ pc = "inicio"
    /\ \E cs \in ColumnLists(heap[df]) :
          LET r == imputar_datos_consumo(heap, df, cs)
          IN  /\ heap' = r.heap
              /\ ret' = r.ref
              /\ columnas_consumo' = cs
    /\ pc' = "imputado"
    /\ UNCHANGED <<df, df0, ret2>>

\* a second pass over the result of the first, with the same column list
Reimputar ==
    /\ pc = "imputado"
    /\ LET r == imputar_datos_consumo(heap, ret, columnas_consumo)
       IN  /\ heap' = r.heap
           /\ ret2' = r.ref
    /\ pc' = "reimputado"
    /\ UNCHANGED <<df, df0, columnas_consumo, ret>>

\* df_fecha = crear_indice_fecha(df)
CrearIndiceFecha ==
    /\ pc = "inicio"
    /\ LET r == crear_indice_fecha(heap, df)
       IN  /\ heap' = r.heap
           /\ ret' = r.ref
    /\ pc' = "fechado"
    /\ UNCHANGED <<df, df0, columnas_consumo, ret2>>

Next == Imputar \/ Reimputar \/ CrearIndiceFecha

Spec == Init /\ [][Next]_vars

(* ----------------------------- properties ----------------------------- *)
\* the input and the output of the first call, column c
Entrada(c) == df0.data[c]
Salida(c)  == heap[ret].data[c]

Objetivo(c) == \E i \in DOMAIN columnas_consumo : columnas_consumo[i] = c
Objetivos  == {c \in DOMAIN df0.data : Objetivo(c)}

Cero == [kind |-> "num", num |-> 0, den |-> 1]
Val(n) == [kind |-> "num", num |-> n, den |-> 1]

\* C1: a missing value strictly between two known values p_lo < p < p_hi
\* (no known value between them) becomes
\* v_lo + (v_hi - v_lo) * (p - p_lo) / (p_hi - p_lo), the distance counted in
\* row positions, whatever the index values are.
C1_InterpolacionPorPosicion ==
    pc = "imputado" =>
      \A c \in Objetivos :
        \A plo \in DOMAIN Entrada(c), p \in DOMAIN Entrada(c), phi \in DOMAIN Entrada(c) :
          ( /\ plo < p /\ p < phi
            /\ NotNa(Entrada(c)[plo]) /\ NotNa(Entrada(c)[phi])
            /\ \A q \in (plo + 1)..(phi - 1) : IsNa(Entrada(c)[q]) )
          => LET lo == Entrada(c)[plo]
                 hi == Entrada(c)[phi]
                 o  == Salida(c)[p]
             IN  /\ o.kind = "num"
                 /\ o.num * (lo.den * hi.den * (phi - plo))
                      = o.den * ( lo.num * hi.den * (phi - plo)
                                  + (hi.num * lo.den - lo.num * hi.den) * (p - plo) )

\* C1 witness: [NaN, NaN, 5, NaN, 10] gives 7.5 at position 4 (of 1..5)
C1_Witness ==
    /\ pc = "imputado" /\ Objetivo("Solar")
    /\ "Wind" \in DOMAIN df0.data
    /\ Entrada("Solar") = <<NaN, NaN, Val(5), NaN, Val(10)>>
    /\ Salida("Solar")[4] = [kind |-> "num", num |-> 15, den |-> 2]

\* C2: in a target column with a known value, every position before the
\* first known value holds 0 and the first known value is kept.
C2_CerosAntesDelPrimero ==
    pc = "imputado" =>
      \A c \in Objetivos :
        ValidPos(Entrada(c)) /= {} =>
          LET i0 == SetMin(ValidPos(Entrada(c)))
          IN  /\ \A p \in 1..(i0 - 1) : Salida(c)[p] = Cero
              /\ Salida(c)[i0] = Entrada(c)[i0]

\* C2 witness: [NaN, NaN, 5, NaN] gives [0, 0, 5, 5]
C2_Witness ==
    /\ pc = "imputado" /\ Objetivo("Solar")
    /\ "Wind" \in DOMAIN df0.data
    /\ Entrada("Solar") = <<NaN, NaN, Val(5), NaN>>
    /\ Salida("Solar") = <<Cero, Cero, Val(5), Val(5)>>

\* C3: in a target column with a known value, every missing position after
\* the last known value holds that last known value.
C3_UltimoValorSostenido ==
    pc = "imputado" =>
      \A c \in Objetivos :
        ValidPos(Entrada(c)) /= {} =>
          LET ult == SetMax(ValidPos(Entrada(c)))
          IN  \A p \in (ult + 1)..Len(Entrada(c)) :
                 Salida(c)[p] = Entrada(c)[ult]

\* C3 witness: [NaN, 3, NaN, NaN] gives [0, 3, 3, 3]
C3_Witness ==
    /\ pc = "imputado" /\ Objetivo("Wind")
    /\ Entrada("Wind") = <<NaN, Val(3), NaN, NaN>>
    /\ Salida("Wind") = <<Cero, Val(3), Val(3), Val(3)>>

\* C4: a target column whose values are all missing is all 0 in the output.
C4_TodoNaNEsCero ==
    pc = "imputado" =>
      \A c \in Objetivos :
        ValidPos(Entrada(c)) = {} =>
          \A p \in DOMAIN Entrada(c) : Salida(c)[p] = Cero

\* C4 witness: an all-missing target column of three rows became zeros
C4_Witness ==
    /\ pc = "imputado" /\ Objetivo("Solar")
    /\ "Wind" \in DOMAIN df0.data
    /\ Entrada("Solar") = <<NaN, NaN, NaN>>
    /\ Salida("Solar") = <<Cero, Cero, Cero>>

\* C5: a second pass with the same column list returns a table equal to the
\* result of the first pass, and the first pass leaves no value of a target
\* column missing.
C5_Idempotente ==
    /\ pc = "reimputado" => heap[ret2] = heap[ret]
    /\ pc \in {"imputado", "reimputado"} =>
         \A c \in Objetivos : \A p \in DOMAIN Salida(c) : NotNa(Salida(c)[p])

\* C5 witness: a second pass ran over a table whose first pass filled a run
\* of two missing values in a target column
C5_Witness ==
    /\ pc = "reimputado" /\ Objetivo("Solar")
    /\ "Wind" \in DOMAIN df0.data
    /\ Entrada("Solar") = <<NaN, Val(5), NaN, NaN, Val(10)>>
    /\ heap[ret] /= df0
    /\ heap[ret2] = heap[ret]

\* C6: after a call the caller's table holds, cell for cell, what it held
\* before (missing cells still missing), and the table returned is another
\* object; the same for the second pass and its input.
C6_EntradaIntacta ==
    /\ pc \in {"imputado", "reimputado"} => heap[df] = df0 /\ ret /= df
    /\ pc = "reimputado" => ret2 /= ret /\ ret2 /= df

\* C6 witness: the call changed target cells in its result while the
\* caller's table still has its missing cells, in both columns
C6_Witness ==
    /\ pc = "imputado" /\ columnas_consumo = <<"Solar">>
    /\ "Wind" \in DOMAIN df0.data
    /\ \E p \in DOMAIN Entrada("Solar") : IsNa(heap[df].data["Solar"][p])
    /\ \E p \in DOMAIN Entrada("Wind") : IsNa(heap[df].data["Wind"][p])
    /\ heap[ret] /= heap[df]

\* C7: the output has the columns and the rows of the input, every column
\* outside the column list is equal to the input's (missing cells stay
\* missing), and with an empty column list the output equals the input.
C7_OtrasColumnasIguales ==
    pc = "imputado" =>
      /\ heap[ret].cols = df0.cols
      /\ heap[ret].index = df0.index
      /\ DOMAIN heap[ret].data = DOMAIN df0.data
      /\ \A c \in DOMAIN df0.data : ~Objetivo(c) => Salida(c) = Entrada(c)
      /\ columnas_consumo = << >> => heap[ret] = df0

\* C7 witness: Solar was imputed while Wind, not listed, kept its missing
\* cells
C7_Witness ==
    /\ pc = "imputado" /\ columnas_consumo = <<"Solar">>
    /\ "Wind" \in DOMAIN df0.data
    /\ Salida("Solar") /= Entrada("Solar")
    /\ \E p \in DOMAIN Entrada("Wind") : IsNa(Salida("Wind")[p])

\* C8: every non-charting call is free of side effects: after
\* imputar_datos_consumo and after crear_indice_fecha the caller's table has
\* the columns and the values it had before the call.
C8_SinEfectosLaterales ==
    pc \in {"imputado", "reimputado", "fechado"} => heap[df] = df0

\* the (Year, Month) of row p of the input, as a first-of-month timestamp
FechaDeFila(p) ==
    [kind |-> "ts", year |-> df0.data["Year"][p].num,
     month |-> df0.data["Month"][p].num, day |-> 1]

C10_ObservadosIntactos ==
    pc = "imputado" =>
      \A c \in Objetivos : \A p \in DOMAIN Entrada(c) :
        NotNa(Entrada(c)[p]) => Salida(c)[p] = Entrada(c)[p]

\* C10 witness: the gaps around two known values were filled, the known
\* values kept
C10_Witness ==
    /\ pc = "imputado" /\ Objetivo("Solar")
    /\ "Wind" \in DOMAIN df0.data
    /\ Entrada("Solar") = <<NaN, Val(5), NaN, Val(10), NaN>>
    /\ Salida("Solar") = <<Cero, Val(5), [kind |-> "num", num |-> 15, den |-> 2],
                           Val(10), Val(10)>>
====
